---- MODULE Spec2Model ----
(***************************************************************************)
(* A model of the signal-to-order pipeline with risk gating:               *)
(*   RiskManager     (src/unnamed/part_000, lines 93-495)                  *)
(*   OrderValidator  (src/src/execution/PositionSizer.ts, lines 174-284)   *)
(*   ExecutionEngine (src/src/execution/ExecutionEngine.ts)                *)
(*   App             (src/src/app.ts, the signalDetected handler)          *)
(* Every await of the source is a point where the handler is suspended:    *)
(* one action runs a handler from one await to the next.  Money amounts    *)
(* are integers (USDT); the drawdown fraction is kept as an exact          *)
(* rational num/den; maxDrawdownPercent is kept in hundredths.             *)
(***************************************************************************)
EXTENDS Integers, Sequences, FiniteSets, Bags, TLC

\* ------------------------------------------------------------------ bounds
\* checkRiskLimits invocations over a run of the model.
MaxRuns == 2
\* UTC days the clock may advance.
MaxDay == 1
\* Signals handed to the engine or to the signalDetected handler.
MaxSignals == 2
\* Risk checks, midnights and signals over a run of the application.
MaxAppEvents == 3
\* checkRiskLimits invocations over a run that follows one day rollover.
MaxRollRuns == 3

\* ------------------------------------------------------- drawn input sets
\* balance.total values the exchange may report.
Balances == {880, 1000}
\* realizedPnl arguments of recordTrade.
TradePnls == {-150}
\* config.dailyLossLimitUsdt values.
DailyLossLimits == {100}
\* config.maxDrawdownPercent values, in hundredths (10 = 0.1).
MaxDrawdownPercents == {10}
\* Positions BinanceOrderClient.getPosition can return: side is NONE exactly
\* when size is 0.
Positions == {[side |-> "NONE", size |-> 0], [side |-> "LONG", size |-> 1],
              [side |-> "SHORT", size |-> 1], [side |-> "SHORT", size |-> 2]}
\* signal.timestamp (the close time of the candle) and signal.type values.
Timestamps == {1, 2}
SignalTypes == {"LONG", "SHORT"}
Signals == [timestamp : Timestamps, type : SignalTypes]
NoSignal == [none |-> TRUE]
\* balance.available values, in USDT.
AvailableBalances == {5, 1000}
\* getMarkPrice values, in USDT.
MarkPrices == {50000}
\* config.retryAttempts values.
RetryAttempts == {0, 3}
\* avgPrice values of a filled entry order, in hundredths of USDT (the
\* price unit of SymbolRules.pricePrecision).
FillPrices == {4990033, 5010000}
\* What the exchange answers to the submitNewOrder of an entry order: a
\* fill, a rejection (insufficient margin) or a transient error (rate limit).
EntryReplies ==
  {[kind |-> "filled", error |-> "none", avgPrice |-> p] : p \in FillPrices}
  \cup {[kind |-> "rejected", error |-> "Margin is insufficient",
          avgPrice |-> 0],
         [kind |-> "transient", error |-> "Too many requests",
          avgPrice |-> 0]}
\* The arguments callers hand to calculatePositionSize: balance.available
\* and the mark price in USDT, and trading rules whose quantityPrecision is
\* finer than, equal to or coarser than stepSize (in thousandths).
SizerBalances == {5, 100, 1000}
SizerPrices == {30, 38000, 50000}
SizerRules ==
  [pricePrecision : {2}, quantityPrecision : {1, 2, 3}, minQty : {1},
   maxQty : {20, 1000000}, stepSize : {1, 5, 10}, minNotional : {5}]
SizerConfigs ==
  [leverage : {10, 50}, positionSizePercent : {10},
   maxPositionSizeUsdt : {500, 1000}, minPositionSizeUsdt : {10}]
\* The positions a caller can hand to validate or closeAllPositions can
\* read: any side with any size.
AnyPositions == [side : {"NONE", "LONG", "SHORT"}, size : {0, 1}]
\* The position sizes a caller can hand to validate (quantity in
\* thousandths, notionalValue in thousandths of USDT).
PositionSizes ==
  {[quantity |-> 0, notionalValue |-> 0, riskAmount |-> 0, valid |-> FALSE,
    reason |-> "below minimum position size"],
   [quantity |-> 20, notionalValue |-> 1000000, riskAmount |-> 10000,
    valid |-> TRUE, reason |-> "none"],
   [quantity |-> 1, notionalValue |-> 3000, riskAmount |-> 10000,
    valid |-> TRUE, reason |-> "none"],
   [quantity |-> 0, notionalValue |-> 0, riskAmount |-> 10000,
    valid |-> TRUE, reason |-> "none"]}
NoCall == [fn |-> "none"]
\* The attempts argument of executeWithRetry (config.retryAttempts, which
\* nothing validates) and config.retryDelayMs.
RetryCounts == {-1, 0, 1, 2, 3}
RetryDelays == {100, 1000}
\* What one invocation of the operation handed to executeWithRetry does: it
\* returns a value or throws an error.
OperationOutcomes ==
  {[threw |-> FALSE, value |-> "result"],
   [threw |-> TRUE, value |-> "Too many requests"],
   [threw |-> TRUE, value |-> "Disconnected"]}
\* The operation by its successive invocations.
Operations == [1 .. 3 -> OperationOutcomes]
\* The trading rules getSymbolInfo returns: quantities in thousandths.
SymbolRules == [pricePrecision |-> 2, quantityPrecision |-> 3, minQty |-> 1,
                maxQty |-> 1000000, stepSize |-> 1, minNotional |-> 5]

VARIABLES
  riskConfig,      \* RiskManager.config
  isRunning,       \* RiskManager.isRunning
  checkTimer,      \* RiskManager.checkTimer # null
  dailyStats,      \* RiskManager.dailyStats
  peakBalance,     \* RiskManager.peakBalance
  currentStatus,   \* RiskManager.currentStatus (NoStatus for null)
  tradingAllowed,  \* RiskManager.tradingAllowed
  today,           \* the UTC day of Date.now()
  starting,        \* a start() call is awaiting its balance query
  runs,            \* checkRiskLimits invocations begun so far
  runBudget,       \* checkRiskLimits invocations the environment begins
  latestDd,        \* isDrawdownBreached as the latest getBalance reply gave it
  checks,          \* the checkRiskLimits invocations in flight (a bag)
  execConfig,      \* ExecutionEngine.config
  isReady,         \* ExecutionEngine.isReady
  initializing,    \* the await an initialize() call is suspended at
  initFailed,      \* an initialize() call has ended in its catch block
  lastExecutedTimestamp,  \* OrderValidator.lastExecutedTimestamp
  lastExecutedType,       \* OrderValidator.lastExecutedType ("null" for null)
  signals,         \* processSignal calls and blocked signals so far
  invocations,     \* the processSignal invocations in flight (a bag)
  recorded,        \* the signal of the latest recordExecution since reset
  filled,          \* entry orders filled per signal since that signal could
                   \* last be forgotten (reset, or another signal recorded)
  emitted,         \* the events emitted by the last step, in order
  last,            \* the operation the last step belongs to
  applied          \* the function a caller applied last: arguments, result

riskVars == <<riskConfig, isRunning, checkTimer, dailyStats, peakBalance,
              currentStatus, tradingAllowed, today, starting, runs, runBudget,
              latestDd, checks>>
execVars == <<execConfig, initFailed, isReady, initializing,
              lastExecutedTimestamp,
              lastExecutedType, signals, invocations, recorded, filled>>
vars == <<riskVars, execVars, emitted, last, applied>>

\* ------------------------------------------------------------ RiskManager
NoStatus == [none |-> TRUE]

\* A checkRiskLimits invocation awaiting getBalance.  pc is the await it is
\* suspended at; daily, dd and status are its locals; stage is the branch of
\* handleBreaches whose closeAllPositions call it is in; position is the
\* local of closeAllPositions.  gate0, newDaily, newDd, fired and closed
\* record what the invocation saw and did: the gate when it was called,
\* whether each condition was breached now and not in the snapshot published
\* before, the riskBreach kinds it emitted and the liquidations it ran;
\* calls are the client calls its running closeAllPositions has made.
NewCheck == [pc |-> "balance", daily |-> FALSE, dd |-> FALSE,
             status |-> NoStatus, stage |-> "none",
             position |-> [side |-> "NONE", size |-> 0],
             gate0 |-> TRUE, newDaily |-> FALSE, newDd |-> FALSE,
             fired |-> {}, closed |-> {}, calls |-> <<>>]

\* A call of closeAllPositions to the client that submits no order.
ClientCall(fn) == [fn |-> fn, side |-> "NONE", quantity |-> 0]

\* A closing order on the side of the position.
closeRequest_SameSide(position) ==
  [fn |-> "submitMarketOrder",
   side |-> IF position.side = "LONG" THEN "BUY" ELSE "SELL",
   quantity |-> position.size]

\* closeAllPositions, "Close position with market order".
closeRequest(position) ==
  [fn |-> "submitMarketOrder",
   side |-> IF position.side = "LONG" THEN "SELL" ELSE "BUY",
   quantity |-> position.size]

\* The operation the last step completed ("none" for a step that completes
\* no risk check), with the record of the check it completed.
NoOp == [op |-> "none", daily |-> FALSE, dd |-> FALSE, gate0 |-> TRUE,
         newDaily |-> FALSE, newDd |-> FALSE, fired |-> {}, closed |-> {}]

\* createNewDayStats(startBalance), with Date.now() on UTC day `now`.
createNewDayStats(startBalance, now) ==
  [startBalance |-> startBalance, dayStart |-> now, realizedPnl |-> 0,
   tradeCount |-> 0]

\* A rollover that resumes trading without telling anyone.
checkDayRollover_Silent(ds, ta, cs, now) ==
  IF now > ds.dayStart
  THEN [dailyStats |-> createNewDayStats(
                         IF cs # NoStatus THEN cs.currentBalance ELSE 0, now),
        tradingAllowed |-> ta \/ (cs # NoStatus /\ ~cs.isDrawdownBreached),
        events |-> <<>>]
  ELSE [dailyStats |-> ds, tradingAllowed |-> ta, events |-> <<>>]

\* checkDayRollover(): the new dailyStats, gate and the events emitted.
checkDayRollover(ds, ta, cs, now) ==
  IF now > ds.dayStart
  THEN LET resume == ~ta /\ cs # NoStatus /\ ~cs.isDrawdownBreached
       IN [dailyStats |-> createNewDayStats(
                            IF cs # NoStatus THEN cs.currentBalance ELSE 0, now),
           tradingAllowed |-> IF resume THEN TRUE ELSE ta,
           events |-> IF resume THEN <<"tradingResumed">> ELSE <<>>]
  ELSE [dailyStats |-> ds, tradingAllowed |-> ta, events |-> <<>>]


\* A check that leaves the peak where start() put it.
updatePeak_Stale(currentBalance, peak) == peak

\* checkRiskLimits, "Update peak balance".
updatePeak(currentBalance, peak) ==
  IF currentBalance > peak THEN currentBalance ELSE peak

\* checkRiskLimits, dailyPnl.
calcDailyPnl(currentBalance, ds) ==
  currentBalance - ds.startBalance + ds.realizedPnl

\* checkRiskLimits, currentDrawdown as the exact fraction num/den.
calcDrawdown(peak, currentBalance) ==
  IF peak > 0 THEN [num |-> peak - currentBalance, den |-> peak]
  ELSE [num |-> 0, den |-> 1]

\* dailyPnl < -dailyLossLimitUsdt
isDailyLimitBreached(dailyPnl, cfg) == dailyPnl < -cfg.dailyLossLimitUsdt

\* currentDrawdown > maxDrawdownPercent (maxDrawdownPercent in hundredths)
isDrawdownBreached(drawdown, cfg) ==
  drawdown.num * 100 > cfg.maxDrawdownPercent * drawdown.den

Max0(x) == IF x > 0 THEN x ELSE 0

\* checkRiskLimits, "Build status" (lastCheck, a wall-clock stamp, is left out).
buildStatus(currentBalance, peak, ds, cfg) ==
  LET dailyPnl == calcDailyPnl(currentBalance, ds)
      drawdown == calcDrawdown(peak, currentBalance)
      daily == isDailyLimitBreached(dailyPnl, cfg)
      dd == isDrawdownBreached(drawdown, cfg)
  IN [dailyPnl |-> dailyPnl,
      dailyLossRemaining |-> Max0(cfg.dailyLossLimitUsdt + dailyPnl),
      peakBalance |-> peak,
      currentBalance |-> currentBalance,
      currentDrawdown |-> drawdown,
      isDailyLimitBreached |-> daily,
      isDrawdownBreached |-> dd,
      isTradingAllowed |-> ~daily /\ ~dd]

\* A daily-loss branch that does not ask whether trading is already blocked.
dailyBranch_Ungated(daily, ta, cfg) ==
  IF daily
  THEN [tradingAllowed |-> FALSE,
        events |-> <<"riskBreach:daily_loss", "tradingBlocked">>,
        liquidate |-> cfg.autoCloseOnBreach]
  ELSE [tradingAllowed |-> ta, events |-> <<>>, liquidate |-> FALSE]

\* handleBreaches, "Daily loss breach", up to its await.
dailyBranch(daily, ta, cfg) ==
  IF daily /\ ta
  THEN [tradingAllowed |-> FALSE,
        events |-> <<"riskBreach:daily_loss", "tradingBlocked">>,
        liquidate |-> cfg.autoCloseOnBreach]
  ELSE [tradingAllowed |-> ta, events |-> <<>>, liquidate |-> FALSE]

\* handleBreaches, "Drawdown breach", up to its await.
drawdownBranch(dd, ta, cfg) ==
  IF dd /\ ta
  THEN [tradingAllowed |-> FALSE,
        events |-> <<"riskBreach:max_drawdown", "tradingBlocked">>,
        liquidate |-> cfg.autoCloseOnBreach]
  ELSE [tradingAllowed |-> ta, events |-> <<>>, liquidate |-> FALSE]

\* handleBreaches, "Check if we can resume trading".
resumeBranch(daily, dd, ta) ==
  IF ~daily /\ ~dd /\ ~ta
  THEN [tradingAllowed |-> TRUE, events |-> <<"tradingResumed">>]
  ELSE [tradingAllowed |-> ta, events |-> <<>>]

\* handleBreaches from the end of the daily branch (or of its liquidation) on:
\* the drawdown branch, then either its liquidation or the resume branch.
afterDailyBranch(chk, ta, cfg) ==
  LET x == drawdownBranch(chk.dd, ta, cfg)
      r == resumeBranch(chk.daily, chk.dd, x.tradingAllowed)
  IN IF x.liquidate
     THEN [check |-> [chk EXCEPT !.pc = "cancel", !.stage = "max_drawdown",
                                 !.calls = <<ClientCall("cancelAllOrders")>>,
                                 !.fired = @ \cup {"max_drawdown"},
                                 !.closed = @ \cup {"max_drawdown"}],
           tradingAllowed |-> x.tradingAllowed, events |-> x.events]
     ELSE [check |-> [chk EXCEPT !.pc = "publish", !.stage = "none",
                                 !.fired = IF x.events # <<>>
                                           THEN @ \cup {"max_drawdown"} ELSE @],
           tradingAllowed |-> r.tradingAllowed, events |-> x.events \o r.events]

\* handleBreaches from the end of the drawdown liquidation on.
afterDrawdownBranch(chk, ta) ==
  LET r == resumeBranch(chk.daily, chk.dd, ta)
  IN [check |-> [chk EXCEPT !.pc = "publish", !.stage = "none"],
      tradingAllowed |-> r.tradingAllowed, events |-> r.events]

\* handleBreaches from its call to its first await.
handleBreaches(chk, ta, cfg) ==
  LET d == dailyBranch(chk.daily, ta, cfg)
      r == afterDailyBranch([chk EXCEPT !.fired = IF d.events # <<>>
                                                  THEN {"daily_loss"} ELSE {}],
                            d.tradingAllowed, cfg)
  IN IF d.liquidate
     THEN [check |-> [chk EXCEPT !.pc = "cancel", !.stage = "daily_loss",
                                 !.calls = <<ClientCall("cancelAllOrders")>>,
                                 !.fired = {"daily_loss"},
                                 !.closed = {"daily_loss"}],
           tradingAllowed |-> d.tradingAllowed, events |-> d.events]
     ELSE [check |-> r.check, tradingAllowed |-> r.tradingAllowed,
           events |-> d.events \o r.events]

\* closeAllPositions has returned: handleBreaches goes on after the await.
afterCloseAllPositions(chk, ta, cfg) ==
  IF chk.stage = "daily_loss" THEN afterDailyBranch(chk, ta, cfg)
  ELSE afterDrawdownBranch(chk, ta)

\* closeAllPositions, hasOpenPosition.
hasOpenPosition(position) == position.side # "NONE" /\ position.size > 0

\* hasStatusChanged(newStatus): |x| > 0.001 on fractions is cross-multiplied.
Abs(x) == IF x < 0 THEN -x ELSE x
hasStatusChanged(cs, newStatus) ==
  IF cs = NoStatus THEN TRUE
  ELSE \/ cs.isDailyLimitBreached # newStatus.isDailyLimitBreached
       \/ cs.isDrawdownBreached # newStatus.isDrawdownBreached
       \/ cs.isTradingAllowed # newStatus.isTradingAllowed
       \/ Abs(cs.dailyPnl - newStatus.dailyPnl) * 100 > 1
       \/ Abs(cs.currentDrawdown.num * newStatus.currentDrawdown.den
              - newStatus.currentDrawdown.num * cs.currentDrawdown.den) * 1000
            > cs.currentDrawdown.den * newStatus.currentDrawdown.den

\* What the last step did: the operation and the events it emitted.
Obs(l, e) == last' = l /\ emitted' = e /\ UNCHANGED applied
\* A step of the risk manager leaves the engine alone, and conversely.
RiskObs(l, e) == Obs(l, e) /\ UNCHANGED execVars
ExecObs(l, e) == Obs(l, e) /\ UNCHANGED riskVars

\* The invocations in flight, with one more, one less, or one moved on.
Spawn(chk) == checks (+) SetToBag({chk})
Retire(chk) == checks (-) SetToBag({chk})
Advance(chk, next) == (checks (-) SetToBag({chk})) (+) SetToBag({next})
InFlight(pc) == {chk \in BagToSet(checks) : chk.pc = pc}

\* ------------------------------------------------------- RiskManager steps
RiskInit ==
  /\ riskConfig \in [enabled : BOOLEAN, autoCloseOnBreach : BOOLEAN,
                     dailyLossLimitUsdt : DailyLossLimits,
                     maxDrawdownPercent : MaxDrawdownPercents]
  /\ isRunning = FALSE
  /\ checkTimer = FALSE
  /\ dailyStats = createNewDayStats(0, 0)
  /\ peakBalance = 0
  /\ currentStatus = NoStatus
  /\ tradingAllowed = TRUE
  /\ today = 0
  /\ starting = FALSE
  /\ runs = 0
  /\ runBudget \in {MaxRuns, MaxRollRuns}
  /\ latestDd = FALSE
  /\ checks = EmptyBag

\* The clock passes UTC midnight.
Midnight ==
  /\ today < MaxDay
  /\ today' = today + 1
  /\ RiskObs(NoOp, <<>>)
  /\ UNCHANGED <<riskConfig, runBudget, latestDd, isRunning, checkTimer,
                 dailyStats, peakBalance,
                 currentStatus, tradingAllowed, starting, runs, checks>>

\* start(): the guards pass and the initial balance is requested.
StartBegin ==
  /\ riskConfig.enabled /\ ~isRunning /\ ~starting
  /\ starting' = TRUE
  /\ RiskObs(NoOp, <<>>)
  /\ UNCHANGED <<riskConfig, runBudget, latestDd, isRunning, checkTimer,
                 dailyStats, peakBalance,
                 currentStatus, tradingAllowed, today, runs, checks>>

\* start(): disabled or already running, nothing happens.
StartSkipped ==
  /\ ~riskConfig.enabled \/ isRunning
  /\ RiskObs(NoOp, <<>>)
  /\ UNCHANGED riskVars

\* start(): the initial balance arrived; startMonitoring() begins the first
\* check and sets the interval timer.
StartBalanceOk ==
  /\ starting /\ runs < runBudget
  /\ \E bal \in Balances :
       LET ds == createNewDayStats(bal, today)
           r == checkDayRollover(ds, tradingAllowed, currentStatus, today)
       IN /\ peakBalance' = bal
          /\ dailyStats' = r.dailyStats
          /\ tradingAllowed' = r.tradingAllowed
          /\ checks' = Spawn([NewCheck EXCEPT !.gate0 = tradingAllowed])
          /\ RiskObs(NoOp, r.events)
  /\ runs' = runs + 1
  /\ isRunning' = TRUE
  /\ checkTimer' = TRUE
  /\ starting' = FALSE
  /\ UNCHANGED <<riskConfig, runBudget, latestDd, currentStatus, today>>

\* start(): the initial balance query failed.
StartBalanceFail ==
  /\ starting
  /\ starting' = FALSE
  /\ RiskObs(NoOp, <<"error">>)
  /\ UNCHANGED <<riskConfig, runBudget, latestDd, isRunning, checkTimer,
                 dailyStats, peakBalance,
                 currentStatus, tradingAllowed, today, runs, checks>>

\* stop()
Stop ==
  /\ isRunning
  /\ isRunning' = FALSE
  /\ checkTimer' = FALSE
  /\ RiskObs(NoOp, <<>>)
  /\ UNCHANGED <<riskConfig, runBudget, latestDd, dailyStats, peakBalance,
                 currentStatus,
                 tradingAllowed, today, starting, runs, checks>>

\* checkRiskLimits() from its call to the await of getBalance.
BeginCheck ==
  /\ runs < runBudget
  /\ runs' = runs + 1
  /\ LET r == checkDayRollover(dailyStats, tradingAllowed, currentStatus, today)
     IN /\ dailyStats' = r.dailyStats
        /\ tradingAllowed' = r.tradingAllowed
        /\ checks' = Spawn([NewCheck EXCEPT !.gate0 = tradingAllowed])
        /\ RiskObs(NoOp, r.events)
  /\ UNCHANGED <<riskConfig, runBudget, latestDd, isRunning, checkTimer,
                 peakBalance, currentStatus,
                 today, starting>>

\* The interval timer set by startMonitoring() fires.
TimerCheck == checkTimer /\ BeginCheck

\* forceCheck()
ForceCheck == BeginCheck

\* A bookkeeping that counts the trade and drops its result.
addTrade_CountOnly(ds, realizedPnl) ==
  [ds EXCEPT !.tradeCount = @ + 1]

\* recordTrade, "realizedPnl += realizedPnl; tradeCount += 1".
addTrade(ds, realizedPnl) ==
  [ds EXCEPT !.realizedPnl = @ + realizedPnl, !.tradeCount = @ + 1]

\* recordTrade(realizedPnl), up to the await inside checkRiskLimits().
RecordTrade ==
  /\ runs < runBudget
  /\ runs' = runs + 1
  /\ \E pnl \in TradePnls :
       LET r == checkDayRollover(dailyStats, tradingAllowed, currentStatus, today)
           ds == addTrade(r.dailyStats, pnl)
           r2 == checkDayRollover(ds, r.tradingAllowed, currentStatus, today)
       IN /\ dailyStats' = r2.dailyStats
          /\ tradingAllowed' = r2.tradingAllowed
          /\ checks' = Spawn([NewCheck EXCEPT !.gate0 = r.tradingAllowed])
          /\ RiskObs([op |-> "recordTrade", realizedPnl |-> pnl],
                     r.events \o r2.events)
  /\ UNCHANGED <<riskConfig, runBudget, latestDd, isRunning, checkTimer,
                 peakBalance, currentStatus,
                 today, starting>>

\* checkRiskLimits(): getBalance returned; the status is computed and
\* handleBreaches runs to its first await.
BalanceOk ==
  /\ \E chk0 \in InFlight("balance"), bal \in Balances :
       LET peak == updatePeak(bal, peakBalance)
           st == buildStatus(bal, peak, dailyStats, riskConfig)
           chk == [chk0 EXCEPT !.daily = st.isDailyLimitBreached,
                               !.dd = st.isDrawdownBreached,
                               !.status = st,
                               !.newDaily = st.isDailyLimitBreached
                                  /\ (currentStatus = NoStatus
                                      \/ ~currentStatus.isDailyLimitBreached),
                               !.newDd = st.isDrawdownBreached
                                  /\ (currentStatus = NoStatus
                                      \/ ~currentStatus.isDrawdownBreached)]
           h == handleBreaches(chk, tradingAllowed, riskConfig)
       IN /\ peakBalance' = peak
          /\ tradingAllowed' = h.tradingAllowed
          /\ checks' = Advance(chk0, h.check)
          /\ latestDd' = st.isDrawdownBreached
          /\ RiskObs([op |-> "balanceOk", status |-> st], h.events)
  /\ UNCHANGED <<riskConfig, runBudget, isRunning, checkTimer, dailyStats,
                 currentStatus,
                 today, starting, runs>>

\* A catch block that fails closed: it blocks trading.
BalanceFail_Closed ==
  /\ \E chk \in InFlight("balance") :
       /\ checks' = Retire(chk)
       /\ RiskObs([NoOp EXCEPT !.op = "checkFailed", !.gate0 = chk.gate0],
                  <<"error">>)
  /\ tradingAllowed' = FALSE
  /\ UNCHANGED <<riskConfig, runBudget, latestDd, isRunning, checkTimer,
                 dailyStats, peakBalance,
                 currentStatus, today, starting, runs>>

\* checkRiskLimits(): getBalance threw; the catch block emits error.
BalanceFail ==
  /\ \E chk \in InFlight("balance") :
       /\ checks' = Retire(chk)
       /\ RiskObs([NoOp EXCEPT !.op = "checkFailed", !.gate0 = chk.gate0],
              <<"error">>)
  /\ UNCHANGED <<riskConfig, runBudget, latestDd, isRunning, checkTimer,
                 dailyStats, peakBalance,
                 currentStatus, tradingAllowed, today, starting, runs>>

\* The record of a step of closeAllPositions: the step failed or not.
Liquidation(ok) ==
  [NoOp EXCEPT !.op = IF ok THEN "none" ELSE "liquidationFailed"]

\* closeAllPositions(): cancelAllOrders returned (true or false, not read);
\* getPosition is requested.
CancelReturns ==
  /\ \E chk \in InFlight("cancel"), ok \in BOOLEAN :
       /\ checks' = Advance(chk, [chk EXCEPT
                                   !.pc = "position",
                                   !.calls =
                                      Append(@, ClientCall("getPosition"))])
       /\ RiskObs(Liquidation(ok), <<>>)
  /\ UNCHANGED <<riskConfig, runBudget, latestDd, isRunning, checkTimer,
                 dailyStats, peakBalance,
                 currentStatus, tradingAllowed, today, starting, runs>>

\* The record of a closeAllPositions that has returned: its client calls in
\* order, and the position getPosition gave it (NONE if it threw).
Closed(ok, calls, position) ==
  [calls |-> calls, position |-> position] @@ Liquidation(ok)

\* handleBreaches goes on after closeAllPositions returned.
ResumeHandleBreaches(chk0, position, ok, events) ==
  LET chk == [chk0 EXCEPT !.position = NewCheck.position, !.calls = <<>>]
      r == afterCloseAllPositions(chk, tradingAllowed, riskConfig)
  IN /\ tradingAllowed' = r.tradingAllowed
     /\ checks' = Advance(chk0, r.check)
     /\ RiskObs(Closed(ok, chk0.calls, position), events \o r.events)

\* closeAllPositions(): getPosition returned; an open position is closed with
\* a market order, otherwise closeAllPositions returns.
PositionOk ==
  /\ \E chk \in InFlight("position"), position \in Positions :
       IF hasOpenPosition(position)
       THEN /\ checks' = Advance(chk, [chk EXCEPT
                                         !.pc = "close",
                                         !.position = position,
                                         !.calls =
                                            Append(@, closeRequest(position))])
            /\ RiskObs(NoOp, <<>>)
            /\ UNCHANGED tradingAllowed
       ELSE ResumeHandleBreaches(chk, position, TRUE, <<>>)
  /\ UNCHANGED <<riskConfig, runBudget, latestDd, isRunning, checkTimer,
                 dailyStats, peakBalance,
                 currentStatus, today, starting, runs>>

\* closeAllPositions(): getPosition threw; the catch block emits error.
PositionFail ==
  /\ \E chk \in InFlight("position") :
       ResumeHandleBreaches(chk, NewCheck.position, FALSE, <<"error">>)
  /\ UNCHANGED <<riskConfig, runBudget, latestDd, isRunning, checkTimer,
                 dailyStats, peakBalance,
                 currentStatus, today, starting, runs>>

\* closeAllPositions(): submitMarketOrder returned its result (not read).
CloseReturns ==
  /\ \E chk \in InFlight("close"), ok \in BOOLEAN :
       ResumeHandleBreaches(chk, chk.position, ok, <<>>)
  /\ UNCHANGED <<riskConfig, runBudget, latestDd, isRunning, checkTimer,
                 dailyStats, peakBalance,
                 currentStatus, today, starting, runs>>

\* checkRiskLimits(): handleBreaches returned; the status is published.
Publish ==
  /\ \E chk \in InFlight("publish") :
       /\ currentStatus' = chk.status
       /\ checks' = Retire(chk)
       /\ RiskObs([op |-> "checkDone", daily |-> chk.daily, dd |-> chk.dd,
               gate0 |-> chk.gate0, newDaily |-> chk.newDaily,
               newDd |-> chk.newDd, fired |-> chk.fired,
               closed |-> chk.closed],
              IF hasStatusChanged(currentStatus, chk.status)
              THEN <<"statusChanged">> ELSE <<>>)
  /\ UNCHANGED <<riskConfig, runBudget, latestDd, isRunning, checkTimer,
                 dailyStats, peakBalance,
                 tradingAllowed, today, starting, runs>>

RiskNext ==
  \/ Midnight
  \/ StartBegin
  \/ StartSkipped
  \/ StartBalanceOk
  \/ StartBalanceFail
  \/ Stop
  \/ TimerCheck
  \/ ForceCheck
  \/ RecordTrade
  \/ BalanceOk
  \/ BalanceFail
  \/ CancelReturns
  \/ PositionOk
  \/ PositionFail
  \/ CloseReturns
  \/ Publish

\* ------------------------------------------- PositionSizer, OrderValidator
\* Quantities are integers in thousandths of the base asset, notional values
\* in thousandths of USDT, percentages in hundredths (10 = 0.1).
Min(a, b) == IF a < b THEN a ELSE b

RECURSIVE Pow10(_)
Pow10(n) == IF n <= 0 THEN 1 ELSE 10 * Pow10(n - 1)

\* parseFloat(x.toFixed(precision)) on a quantity in thousandths: round to
\* the nearest multiple of 10^(3 - precision) thousandths.
toFixedQuantity(quantity, precision) ==
  LET unit == Pow10(3 - precision)
  IN ((2 * quantity + unit) \div (2 * unit)) * unit

\* An adjustment that applies the precision and skips the step size.
adjustToPrecision_NoFloor(num, den, symbolInfo) ==
  toFixedQuantity(num \div den, symbolInfo.quantityPrecision)

\* adjustToPrecision(quantity, symbolInfo), the quantity given as num/den.
adjustToPrecision(num, den, symbolInfo) ==
  LET steps == num \div (den * symbolInfo.stepSize)
      adjusted == steps * symbolInfo.stepSize
  IN toFixedQuantity(adjusted, symbolInfo.quantityPrecision)

\* createInvalidResult(reason)
createInvalidResult(reason) ==
  [quantity |-> 0, notionalValue |-> 0, riskAmount |-> 0, valid |-> FALSE,
   reason |-> reason]

\* A sizer that checks its own limits and the symbol's maximum, and leaves
\* the symbol's minimums to the validator.
calculatePositionSize_NoSymbolMinimums(available, currentPrice, symbolInfo, cfg) ==
  LET riskAmount == available * cfg.positionSizePercent
      leveragedAmount == riskAmount * cfg.leverage
      notionalValue == Min(leveragedAmount, cfg.maxPositionSizeUsdt * 100)
      quantity == adjustToPrecision(notionalValue * 10, currentPrice,
                                    symbolInfo)
  IN IF notionalValue < cfg.minPositionSizeUsdt * 100
     THEN createInvalidResult("below minimum position size")
     ELSE IF quantity > symbolInfo.maxQty
     THEN createInvalidResult("exceeds symbol maximum quantity")
     ELSE [quantity |-> quantity, notionalValue |-> quantity * currentPrice,
           riskAmount |-> riskAmount, valid |-> TRUE, reason |-> "none"]

\* calculatePositionSize(balance, currentPrice, symbolInfo); riskAmount is
\* kept in hundredths of USDT.
calculatePositionSize(available, currentPrice, symbolInfo, cfg) ==
  LET riskAmount == available * cfg.positionSizePercent
      leveragedAmount == riskAmount * cfg.leverage
      notionalValue == Min(leveragedAmount, cfg.maxPositionSizeUsdt * 100)
      quantity == adjustToPrecision(notionalValue * 10, currentPrice,
                                    symbolInfo)
      actualNotional == quantity * currentPrice
  IN IF notionalValue < cfg.minPositionSizeUsdt * 100
     THEN createInvalidResult("below minimum position size")
     ELSE IF quantity < symbolInfo.minQty
     THEN createInvalidResult("below symbol minimum quantity")
     ELSE IF quantity > symbolInfo.maxQty
     THEN createInvalidResult("exceeds symbol maximum quantity")
     ELSE IF actualNotional < symbolInfo.minNotional * 1000
     THEN createInvalidResult("below symbol minimum notional")
     ELSE [quantity |-> quantity, notionalValue |-> actualNotional,
           riskAmount |-> riskAmount, valid |-> TRUE, reason |-> "none"]

\* A duplicate check that reads the candle timestamp alone.
isDuplicateSignal_TimestampOnly(signal, lastTimestamp, lastType) ==
  signal.timestamp = lastTimestamp

\* OrderValidator.isDuplicateSignal(signal)
isDuplicateSignal(signal, lastTimestamp, lastType) ==
  signal.timestamp = lastTimestamp /\ signal.type = lastType

\* OrderValidator.isConflictingPosition(signal, position)
isConflictingPosition(signal, position) ==
  \/ signal.type = "LONG" /\ position.side = "SHORT"
  \/ signal.type = "SHORT" /\ position.side = "LONG"

\* A validate that stops at the first rule that fires.
validate_FirstErrorOnly(signal, position, positionSize, symbolInfo, lastTimestamp, lastType) ==
  [valid |-> ~isDuplicateSignal(signal, lastTimestamp, lastType)
             /\ positionSize.valid,
   errors |-> IF isDuplicateSignal(signal, lastTimestamp, lastType)
              THEN <<"Duplicate signal">>
              ELSE IF ~positionSize.valid THEN <<"Invalid position size">>
              ELSE <<>>,
   warnings |-> <<>>]

\* A validate whose valid flag does not follow its errors.
validate_AlwaysValid(signal, position, positionSize, symbolInfo, lastTs, lastType) ==
  [valid |-> TRUE,
   errors |-> IF positionSize.valid THEN <<>> ELSE <<"Invalid position size">>,
   warnings |-> <<>>]

\* OrderValidator.validate(signal, currentPosition, positionSize, symbolInfo)
validate(signal, position, positionSize, symbolInfo, lastTimestamp, lastType) ==
  LET errors ==
        (IF isDuplicateSignal(signal, lastTimestamp, lastType)
         THEN <<"Duplicate signal">> ELSE <<>>)
        \o (IF ~positionSize.valid THEN <<"Invalid position size">> ELSE <<>>)
        \o (IF positionSize.valid
               /\ positionSize.notionalValue < symbolInfo.minNotional * 1000
            THEN <<"Notional below minimum">> ELSE <<>>)
        \o (IF positionSize.valid /\ positionSize.quantity < symbolInfo.minQty
            THEN <<"Quantity below minimum">> ELSE <<>>)
      warnings ==
        IF position.side # "NONE" /\ isConflictingPosition(signal, position)
        THEN <<"Existing position">> ELSE <<>>
  IN [valid |-> Len(errors) = 0, errors |-> errors, warnings |-> warnings]

\* --------------------------------------------------------- ExecutionEngine
\* A processSignal invocation awaiting its four state fetches.  gate is the
\* value of isTradingAllowed() when processSignal was called; fetched tells
\* that the four fetches returned, errors are the errors validate reported,
\* orders are the orders the invocation has submitted, entryOk is the
\* success flag of its entry order's result, closedAt are the orders it
\* submitted while isTradingAllowed() was false.
NewInvocation(signal, gate) ==
  [pc |-> "fetch", signal |-> signal, gate |-> gate, quantity |-> 0,
   fetched |-> FALSE, errors |-> <<>>, orders |-> {}, entryOk |-> FALSE,
   submits |-> 0, entry |-> "none", reason |-> "none", avgPrice |-> 0,
   submitted |-> <<>>, closedAt |-> {}]

\* The orders among `orders` submitted now, while the risk gate is closed.
GateClosed(orders) == IF tradingAllowed THEN {} ELSE orders

\* calculateTakeProfit(entryPrice, side): the exact product as num/den, the
\* price in units of 10^-pricePrecision USDT, takeProfitPercent in hundredths.
calculateTakeProfit(entryPrice, side, cfg) ==
  [num |-> entryPrice * (IF side = "LONG" THEN 100 + cfg.takeProfitPercent
                         ELSE 100 - cfg.takeProfitPercent),
   den |-> 100]

\* calculateStopLoss(entryPrice, side)
calculateStopLoss(entryPrice, side, cfg) ==
  [num |-> entryPrice * (IF side = "LONG" THEN 100 - cfg.stopLossPercent
                         ELSE 100 + cfg.stopLossPercent),
   den |-> 100]

\* adjustPricePrecision(price, symbolInfo): toFixed(pricePrecision) rounds to
\* the nearest unit of 10^-pricePrecision USDT; prices are counted in that
\* unit (hundredths for pricePrecision 2), so it rounds num/den to an integer.
adjustPricePrecision(price, symbolInfo) ==
  (price.num \div price.den)
    + (IF 2 * (price.num % price.den) >= price.den THEN 1 ELSE 0)

\* A retry that gives up at the first error.
executeWithRetry_NoRetry(result, i, attempts) ==
  IF ~result.threw THEN "return" ELSE "throw"

\* A client whose submitMarketOrder lets the error of submitNewOrder through.
submitMarketOrder_Throws(reply) ==
  [threw |-> reply.kind # "filled", success |-> reply.kind = "filled",
   error |-> reply.error, avgPrice |-> reply.avgPrice]

\* BinanceOrderClient.submitMarketOrder: every error of submitNewOrder is
\* caught and returned as {success: false, error}.
submitMarketOrder(reply) ==
  [threw |-> FALSE, success |-> reply.kind = "filled",
   error |-> reply.error, avgPrice |-> reply.avgPrice]

\* executeWithRetry after attempt i of `attempts`: the result is returned,
\* or the operation threw and is tried again, or its error is thrown on.
executeWithRetry(result, i, attempts) ==
  IF ~result.threw THEN "return"
  ELSE IF i < attempts THEN "retry" ELSE "throw"

\* executeWithRetry(operation, attempts) as a whole, from attempt i on: the
\* calls made, the sleeps taken (ms, in order) and the value returned or
\* the error thrown ("null" for the lastError no attempt has set).
RECURSIVE retryLoop(_, _, _, _, _)
retryLoop(operation, i, attempts, retryDelayMs, sleeps) ==
  IF i > attempts
  THEN [calls |-> i - 1, sleeps |-> sleeps, threw |-> TRUE, value |-> "null"]
  ELSE LET result == operation[i]
           next == executeWithRetry(result, i, attempts)
       IN IF next = "return"
          THEN [calls |-> i, sleeps |-> sleeps, threw |-> FALSE,
                value |-> result.value]
          ELSE IF next = "retry"
          THEN retryLoop(operation, i + 1, attempts, retryDelayMs,
                         Append(sleeps, retryDelayMs * i))
          ELSE [calls |-> i, sleeps |-> sleeps, threw |-> TRUE,
                value |-> result.value]

\* The requests processSignal hands to the client.
entryRequest(signal) ==
  [type |-> "MARKET", side |-> IF signal.type = "LONG" THEN "BUY" ELSE "SELL",
   stopPrice |-> 0]

\* Exit orders on the side of the entry, priced from the fill as they are.
exitRequests_EntrySide(signal, entryPrice, symbolInfo, cfg) ==
  LET exitSide == IF signal.type = "LONG" THEN "BUY" ELSE "SELL"
      tpPrice == calculateTakeProfit(entryPrice, signal.type, cfg)
      slPrice == calculateStopLoss(entryPrice, signal.type, cfg)
  IN <<[type |-> "TAKE_PROFIT_MARKET", side |-> exitSide,
        stopPrice |-> adjustPricePrecision(tpPrice, symbolInfo)],
       [type |-> "STOP_MARKET", side |-> exitSide,
        stopPrice |-> adjustPricePrecision(slPrice, symbolInfo)]>>

exitRequests(signal, entryPrice, symbolInfo, cfg) ==
  LET exitSide == IF signal.type = "LONG" THEN "SELL" ELSE "BUY"
      tpPrice == calculateTakeProfit(entryPrice, signal.type, cfg)
      slPrice == calculateStopLoss(entryPrice, signal.type, cfg)
  IN <<[type |-> "TAKE_PROFIT_MARKET", side |-> exitSide,
        stopPrice |-> adjustPricePrecision(tpPrice, symbolInfo)],
       [type |-> "STOP_MARKET", side |-> exitSide,
        stopPrice |-> adjustPricePrecision(slPrice, symbolInfo)]>>

\* A result that reports the take-profit order in both places.
executionResult_TpForBoth(signal, entryOk, tpOrder, slOrder) ==
  [signal |-> signal, entryOrder |-> entryOk, takeProfitOrder |-> tpOrder,
   stopLossOrder |-> tpOrder]

\* processSignal, "const result: ExecutionResult" (orders by their success).
executionResult(signal, entryOk, tpOrder, slOrder) ==
  [signal |-> signal, entryOrder |-> entryOk, takeProfitOrder |-> tpOrder,
   stopLossOrder |-> slOrder]
NoResult == [none |-> TRUE]

\* A guard that reads config.enabled alone.
canProcess_EnabledOnly(ready, cfg) == cfg.enabled

\* processSignal, "Guard: Engine not ready or disabled".
canProcess(ready, cfg) == ready /\ cfg.enabled

\* A gate that is always open.
isTradingAllowed_Open(ta) == TRUE

\* RiskManager.isTradingAllowed()
isTradingAllowed(ta) == ta

ExecSpawn(inv) == invocations (+) SetToBag({inv})
ExecRetire(inv) == invocations (-) SetToBag({inv})
ExecAdvance(inv, next) == (invocations (-) SetToBag({inv})) (+) SetToBag({next})
ExecInFlight(pc) == {inv \in BagToSet(invocations) : inv.pc = pc}

\* What a finished processSignal invocation did.
Done(inv) ==
  [op |-> "signalDone", signal |-> inv.signal, gate |-> inv.gate,
   fetched |-> inv.fetched, errors |-> inv.errors, entryOk |-> inv.entryOk,
   orders |-> inv.orders, submits |-> inv.submits, entry |-> inv.entry,
   reason |-> inv.reason, avgPrice |-> inv.avgPrice,
   submitted |-> inv.submitted, closedAt |-> inv.closedAt,
   result |-> NoResult,
   replies |-> [tp |-> FALSE, sl |-> FALSE]]

ExecInit ==
  /\ execConfig \in [enabled : BOOLEAN, retryAttempts : RetryAttempts,
                     leverage : {10}, positionSizePercent : {10},
                     takeProfitPercent : {2}, stopLossPercent : {1},
                     maxPositionSizeUsdt : {1000}, minPositionSizeUsdt : {10}]
  /\ isReady = FALSE
  /\ initializing = "idle"
  /\ initFailed = FALSE
  /\ lastExecutedTimestamp = 0
  /\ lastExecutedType = "null"
  /\ signals = 0
  /\ invocations = EmptyBag
  /\ recorded = NoSignal
  /\ filled = [s \in Signals |-> 0]

\* What an initialize() call that has returned did: the value it returned
\* and the answers of verifyConnection and setLeverage it got.
Initialized(returned, connected, leverageSet) ==
  [op |-> "initializeDone", returned |-> returned, connected |-> connected,
   leverageSet |-> leverageSet]

\* initialize() from its call to the await of verifyConnection; a disabled
\* engine returns false at once.
Initialize ==
  /\ initializing = "idle"
  /\ initializing' = IF execConfig.enabled THEN "verify" ELSE "idle"
  /\ ExecObs(IF execConfig.enabled THEN NoOp
             ELSE Initialized(FALSE, FALSE, FALSE), <<>>)
  /\ UNCHANGED <<execConfig, initFailed, isReady, lastExecutedTimestamp,
                 lastExecutedType, signals, invocations, recorded, filled>>

\* initialize(): verifyConnection returned; not connected throws into the
\* catch block, connected goes on to setLeverage.
VerifyReturns ==
  /\ initializing = "verify"
  /\ \E connected \in BOOLEAN :
       /\ initializing' = IF connected THEN "leverage" ELSE "idle"
       /\ initFailed' = (initFailed \/ ~connected)
       /\ ExecObs(IF connected THEN NoOp
                  ELSE Initialized(FALSE, FALSE, FALSE),
                  IF connected THEN <<>> ELSE <<"error">>)
  /\ UNCHANGED <<execConfig, isReady, lastExecutedTimestamp,
                 lastExecutedType, signals, invocations, recorded, filled>>

\* initialize(): setLeverage returned; the engine is ready either way.
LeverageReturns ==
  /\ initializing = "leverage"
  /\ \E leverageSet \in BOOLEAN :
       ExecObs(Initialized(TRUE, TRUE, leverageSet),
               IF leverageSet THEN <<"leverageSet">> ELSE <<>>)
  /\ isReady' = TRUE
  /\ initializing' = "idle"
  /\ UNCHANGED <<execConfig, initFailed, lastExecutedTimestamp,
                 lastExecutedType, signals, invocations, recorded, filled>>

\* reset(): validator.reset()
Reset ==
  /\ lastExecutedTimestamp' = 0
  /\ lastExecutedType' = "null"
  /\ recorded' = NoSignal
  /\ filled' = [s \in Signals |-> 0]
  /\ ExecObs([NoOp EXCEPT !.op = "reset"], <<>>)
  /\ UNCHANGED <<execConfig, initFailed, isReady, initializing, signals,
                 invocations>>

\* processSignal(signal) from its call to the await of the four fetches.
processSignal(signal) ==
  LET go == canProcess(isReady, execConfig)
  IN /\ invocations' = IF go
                       THEN ExecSpawn(NewInvocation(signal, tradingAllowed))
                       ELSE invocations
     /\ ExecObs([op |-> "processSignal", signal |-> signal,
                 gate |-> tradingAllowed, ready |-> isReady,
                 enabled |-> execConfig.enabled,
                 calls |-> IF go THEN {"getBalance", "getPosition",
                                       "getSymbolInfo", "getMarkPrice"}
                           ELSE {}],
                <<>>)
     /\ UNCHANGED <<execConfig, initFailed, isReady, initializing,
                    lastExecutedTimestamp,
                    lastExecutedType, recorded, filled>>

\* A caller of the engine hands it a signal.
ProcessSignal ==
  /\ signals < MaxSignals
  /\ signals' = signals + 1
  /\ \E signal \in Signals : processSignal(signal)

\* A processSignal that samples the risk gate again after its fetches and
\* gives the signal up when trading is blocked.
FetchOk_Gated ==
  /\ \E inv \in ExecInFlight("fetch"), available \in AvailableBalances,
        position \in Positions, markPrice \in MarkPrices :
       LET positionSize == calculatePositionSize(available, markPrice,
                                                 SymbolRules, execConfig)
           validation == validate(inv.signal, position, positionSize,
                                  SymbolRules, lastExecutedTimestamp,
                                  lastExecutedType)
           got == [inv EXCEPT !.fetched = TRUE, !.errors = validation.errors]
       IN IF ~validation.valid \/ ~tradingAllowed
          THEN /\ invocations' = ExecRetire(inv)
               /\ ExecObs(Done(got), <<"orderFailed">>)
          ELSE /\ invocations' =
                    ExecAdvance(inv, [got EXCEPT
                                        !.pc = "entry",
                                        !.quantity = positionSize.quantity,
                                        !.orders = {"entry"},
                                        !.submits = 1,
                                        !.submitted =
                                           <<entryRequest(inv.signal)>>])
               /\ ExecObs(NoOp, <<>>)
  /\ UNCHANGED <<execConfig, initFailed, isReady, initializing,
                 lastExecutedTimestamp,
                 lastExecutedType, signals, recorded, filled>>

\* processSignal: the four fetches returned; size, validate and, when valid,
\* executeWithRetry submits the entry order (with no attempt allowed it
\* throws into the catch block).
FetchOk ==
  /\ \E inv \in ExecInFlight("fetch"), available \in AvailableBalances,
        position \in Positions, markPrice \in MarkPrices :
       LET positionSize == calculatePositionSize(available, markPrice,
                                                 SymbolRules, execConfig)
           validation == validate(inv.signal, position, positionSize,
                                  SymbolRules, lastExecutedTimestamp,
                                  lastExecutedType)
           got == [inv EXCEPT !.fetched = TRUE, !.errors = validation.errors]
       IN IF ~validation.valid
          THEN /\ invocations' = ExecRetire(inv)
               /\ ExecObs(Done(got), <<"orderFailed">>)
          ELSE IF execConfig.retryAttempts < 1
          THEN /\ invocations' = ExecRetire(inv)
               /\ ExecObs(Done(got), <<"orderFailed", "error">>)
          ELSE /\ invocations' =
                    ExecAdvance(inv, [got EXCEPT
                                        !.pc = "entry",
                                        !.quantity = positionSize.quantity,
                                        !.orders = {"entry"},
                                        !.closedAt = GateClosed({"entry"}),
                                        !.submits = 1,
                                        !.submitted =
                                           <<entryRequest(inv.signal)>>])
               /\ ExecObs(NoOp, <<>>)
  /\ UNCHANGED <<execConfig, initFailed, isReady, initializing,
                 lastExecutedTimestamp,
                 lastExecutedType, signals, recorded, filled>>

\* A catch block that emits error and no orderFailed.
FetchFail_Silent ==
  /\ \E inv \in ExecInFlight("fetch") :
       /\ invocations' = ExecRetire(inv)
       /\ ExecObs(Done(inv), <<"error">>)
  /\ UNCHANGED <<execConfig, initFailed, isReady, initializing,
                 lastExecutedTimestamp,
                 lastExecutedType, signals, recorded, filled>>

\* A catch block that records the signal as executed.
FetchFail_Records ==
  /\ \E inv \in ExecInFlight("fetch") :
       /\ invocations' = ExecRetire(inv)
       /\ lastExecutedTimestamp' = inv.signal.timestamp
       /\ lastExecutedType' = inv.signal.type
       /\ ExecObs(Done(inv), <<"orderFailed", "error">>)
  /\ UNCHANGED <<execConfig, initFailed, isReady, initializing, signals,
                 recorded, filled>>

\* processSignal: one of the four fetches threw; the catch block runs.
FetchFail ==
  /\ \E inv \in ExecInFlight("fetch") :
       /\ invocations' = ExecRetire(inv)
       /\ ExecObs(Done(inv), <<"orderFailed", "error">>)
  /\ UNCHANGED <<execConfig, initFailed, isReady, initializing,
                 lastExecutedTimestamp,
                 lastExecutedType, signals, recorded, filled>>

\* processSignal: submitMarketOrder returned from attempt inv.submits of
\* executeWithRetry; a success submits the take-profit and stop-loss orders,
\* a failure emits orderFailed with the error of the result.  (Were the
\* operation to throw, executeWithRetry would submit again or throw on.)
EntryReturns ==
  /\ \E inv \in ExecInFlight("entry"), reply \in EntryReplies :
       LET entryOrder == submitMarketOrder(reply)
           next == executeWithRetry(entryOrder, inv.submits,
                                    execConfig.retryAttempts)
           got == [inv EXCEPT !.entry = reply.kind]
       IN IF next = "retry"
          THEN /\ invocations' =
                    ExecAdvance(inv, [got EXCEPT
                                        !.submits = @ + 1,
                                        !.closedAt =
                                           @ \cup GateClosed({"entry"}),
                                        !.submitted =
                                           Append(@, entryRequest(inv.signal))])
               /\ filled' = filled
               /\ ExecObs(NoOp, <<>>)
          ELSE IF next = "throw"
          THEN /\ invocations' = ExecRetire(inv)
               /\ filled' = filled
               /\ ExecObs(Done([got EXCEPT !.reason = entryOrder.error]),
                          <<"orderFailed", "error">>)
          ELSE IF entryOrder.success
          THEN /\ invocations' =
                    ExecAdvance(inv, [got EXCEPT
                                        !.pc = "exits",
                                        !.entryOk = TRUE,
                                        !.avgPrice = entryOrder.avgPrice,
                                        !.orders = @ \cup {"tp", "sl"},
                                        !.closedAt =
                                           @ \cup GateClosed({"tp", "sl"}),
                                        !.submitted =
                                           @ \o exitRequests(inv.signal,
                                                   entryOrder.avgPrice,
                                                   SymbolRules, execConfig)])
               /\ filled' = [filled EXCEPT ![inv.signal] = @ + 1]
               /\ ExecObs(NoOp, <<>>)
          ELSE /\ invocations' = ExecRetire(inv)
               /\ filled' = filled
               /\ ExecObs(Done([got EXCEPT !.reason = entryOrder.error]),
                          <<"orderFailed">>)
  /\ UNCHANGED <<execConfig, initFailed, isReady, initializing,
                 lastExecutedTimestamp,
                 lastExecutedType, signals, recorded>>

\* processSignal: both exit orders returned their results;
\* recordExecution(signal), then orderExecuted with the result.
ExitsReturn ==
  /\ \E inv \in ExecInFlight("exits"), tpOk \in BOOLEAN, slOk \in BOOLEAN :
       /\ lastExecutedTimestamp' = inv.signal.timestamp
       /\ lastExecutedType' = inv.signal.type
       /\ recorded' = inv.signal
       /\ filled' = [s \in Signals |->
                       IF s = inv.signal THEN filled[s] ELSE 0]
       /\ invocations' = ExecRetire(inv)
       /\ ExecObs([Done(inv) EXCEPT
                     !.result = executionResult(inv.signal, inv.entryOk,
                                                tpOk, slOk),
                     !.replies = [tp |-> tpOk, sl |-> slOk]],
                  <<"orderExecuted">>)
  /\ UNCHANGED <<execConfig, initFailed, isReady, initializing, signals>>

ExecNext ==
  \/ Initialize
  \/ VerifyReturns
  \/ LeverageReturns
  \/ Reset
  \/ ProcessSignal
  \/ FetchOk
  \/ FetchFail
  \/ EntryReturns
  \/ ExitsReturn

\* --------------------------------------------------------------------- App
\* The events the application has taken from outside: risk checks begun,
\* midnights passed and signals detected.
AppEvents == runs + today + signals

\* start(), "Initialize Execution Engine (if enabled)": before the market
\* data consumer and the risk manager are started.
AppInitialize ==
  /\ ~starting /\ ~isRunning /\ runs = 0
  /\ Initialize

\* start(), "Start risk manager": after initialize() has returned.
AppStartRisk ==
  /\ initializing = "idle"
  /\ StartBegin

\* start(): riskManager.start() got its balance.
AppStartBalanceOk == AppEvents < MaxAppEvents /\ StartBalanceOk

\* The risk manager's timer fires while the application runs.
AppTimerCheck == AppEvents < MaxAppEvents /\ TimerCheck

\* UTC midnight passes while the application runs.
AppMidnight == AppEvents < MaxAppEvents /\ Midnight

\* The signalDetected handler, while the market data consumer runs: the
\* engine is called only if the risk manager allows trading.
SignalDetected ==
  /\ starting \/ isRunning
  /\ AppEvents < MaxAppEvents
  /\ signals < MaxSignals
  /\ signals' = signals + 1
  /\ \E signal \in Signals :
       IF isTradingAllowed(tradingAllowed)
       THEN processSignal(signal)
       ELSE /\ ExecObs([op |-> "signalBlocked", signal |-> signal,
                        gate |-> tradingAllowed, calls |-> {}], <<>>)
            /\ UNCHANGED <<execConfig, initFailed, isReady, initializing,
                           lastExecutedTimestamp, lastExecutedType,
                           invocations, recorded, filled>>

\* The application: start() initializes the engine and starts the risk
\* manager, whose timer runs the checks; stop() stops it.  The application
\* calls neither forceCheck() nor recordTrade() nor reset().
AppNext ==
  \/ AppInitialize
  \/ VerifyReturns
  \/ LeverageReturns
  \/ SignalDetected
  \/ FetchOk
  \/ FetchFail
  \/ EntryReturns
  \/ ExitsReturn
  \/ AppMidnight
  \/ AppStartRisk
  \/ AppStartBalanceOk
  \/ StartBalanceFail
  \/ Stop
  \/ AppTimerCheck
  \/ BalanceOk
  \/ BalanceFail
  \/ Publish

\* ---------------------------------------------------------- specifications
Init ==
  /\ RiskInit
  /\ ExecInit
  /\ emitted = <<>>
  /\ last = NoOp
  /\ applied = NoCall

\* The risk manager with its clock and its exchange client; the engine idle.
InitRisk ==
  /\ Init
  /\ riskConfig.enabled
  /\ runBudget = MaxRuns
  /\ execConfig.enabled /\ execConfig.retryAttempts = 3
SpecRisk == InitRisk /\ [][RiskNext]_vars

\* The execution engine with its validator and its exchange client; the
\* risk manager not started.
InitExec ==
  /\ Init
  /\ runBudget = MaxRuns
  /\ riskConfig.enabled /\ ~riskConfig.autoCloseOnBreach
SpecExec == InitExec /\ [][ExecNext]_vars

\* ----------------------------------------------------- functions on their own
\* A caller applies calculatePositionSize to arguments of its choice.
ApplyCalculatePositionSize ==
  /\ \E available \in SizerBalances, currentPrice \in SizerPrices,
        symbolInfo \in SizerRules, cfg \in SizerConfigs :
       applied' = [fn |-> "calculatePositionSize", available |-> available,
                   currentPrice |-> currentPrice, symbolInfo |-> symbolInfo,
                   cfg |-> cfg,
                   result |-> calculatePositionSize(available, currentPrice,
                                                    symbolInfo, cfg)]
  /\ UNCHANGED <<riskVars, execVars, emitted, last>>

\* A caller applies validate to arguments of its choice, the validator
\* remembering any execution or none.
ApplyValidate ==
  /\ \E signal \in Signals, position \in AnyPositions,
        positionSize \in PositionSizes,
        memory \in {[timestamp |-> 0, type |-> "null"]} \cup Signals :
       applied' = [fn |-> "validate", signal |-> signal,
                   position |-> position, positionSize |-> positionSize,
                   lastTimestamp |-> memory.timestamp,
                   lastType |-> memory.type,
                   result |-> validate(signal, position, positionSize,
                                       SymbolRules, memory.timestamp,
                                       memory.type)]
  /\ UNCHANGED <<riskVars, execVars, emitted, last>>

\* closeAllPositions decides on a position whether to submit a closing order.
ApplyHasOpenPosition ==
  /\ \E position \in AnyPositions :
       applied' = [fn |-> "hasOpenPosition", position |-> position,
                   result |-> hasOpenPosition(position)]
  /\ UNCHANGED <<riskVars, execVars, emitted, last>>

\* A caller applies executeWithRetry to an operation of its choice.
ApplyExecuteWithRetry ==
  /\ \E operation \in Operations, attempts \in RetryCounts,
        retryDelayMs \in RetryDelays :
       applied' = [fn |-> "executeWithRetry", operation |-> operation,
                   attempts |-> attempts, retryDelayMs |-> retryDelayMs,
                   result |-> retryLoop(operation, 1, attempts, retryDelayMs,
                                        <<>>)]
  /\ UNCHANGED <<riskVars, execVars, emitted, last>>

\* processSignal, steps 2 and 3: the result of calculatePositionSize is
\* handed to validate with the same rules; the validator remembers the
\* signal or nothing.
ApplySizeThenValidate ==
  /\ \E available \in SizerBalances, currentPrice \in SizerPrices,
        symbolInfo \in SizerRules,
        cfg \in {c \in SizerConfigs : c.maxPositionSizeUsdt = 1000},
        duplicate \in BOOLEAN :
       LET signal == [timestamp |-> 1, type |-> "LONG"]
           positionSize == calculatePositionSize(available, currentPrice,
                                                 symbolInfo, cfg)
       IN applied' = [fn |-> "sizeThenValidate", available |-> available,
                      currentPrice |-> currentPrice,
                      symbolInfo |-> symbolInfo, cfg |-> cfg,
                      duplicate |-> duplicate, positionSize |-> positionSize,
                      result |-> validate(signal, NewCheck.position,
                                          positionSize, symbolInfo,
                                          IF duplicate THEN signal.timestamp
                                          ELSE 0,
                                          IF duplicate THEN signal.type
                                          ELSE "null")]
  /\ UNCHANGED <<riskVars, execVars, emitted, last>>

PureNext ==
  \/ ApplySizeThenValidate
  \/ ApplyExecuteWithRetry
  \/ ApplyCalculatePositionSize
  \/ ApplyValidate
  \/ ApplyHasOpenPosition

InitPure ==
  /\ Init
  /\ runBudget = MaxRuns
  /\ riskConfig.enabled /\ ~riskConfig.autoCloseOnBreach
  /\ execConfig.enabled /\ execConfig.retryAttempts = 3
SpecPure == InitPure /\ [][PureNext]_vars

\* The risk manager across a day rollover: started once and never stopped,
\* the interval timer and recordTrade as the only callers of a check, and
\* the emergency liquidation switched on.
RollNext ==
  \/ Midnight
  \/ StartBegin
  \/ StartBalanceOk
  \/ TimerCheck
  \/ RecordTrade
  \/ BalanceOk
  \/ BalanceFail
  \/ CancelReturns
  \/ PositionOk
  \/ PositionFail
  \/ CloseReturns
  \/ Publish

InitRoll ==
  /\ Init
  /\ runBudget = MaxRollRuns
  /\ riskConfig.enabled /\ riskConfig.autoCloseOnBreach
  /\ execConfig.enabled /\ execConfig.retryAttempts = 3
SpecRoll == InitRoll /\ [][RollNext]_vars

\* The application wiring the risk gate to the engine.
InitApp ==
  /\ Init
  /\ runBudget = MaxRuns
  /\ riskConfig.enabled /\ ~riskConfig.autoCloseOnBreach
  /\ execConfig.enabled /\ execConfig.retryAttempts = 3
Spec == InitApp /\ [][AppNext]_vars

\* The application within one UTC day, started once and not stopped, with
\* autoCloseOnBreach configured: a breach found by a check runs
\* closeAllPositions while signals are detected and executed.
GateNext ==
  \/ AppInitialize
  \/ VerifyReturns
  \/ LeverageReturns
  \/ SignalDetected
  \/ FetchOk
  \/ FetchFail
  \/ EntryReturns
  \/ ExitsReturn
  \/ AppStartRisk
  \/ AppStartBalanceOk
  \/ AppTimerCheck
  \/ BalanceOk
  \/ BalanceFail
  \/ Publish
  \/ CancelReturns
  \/ PositionOk
  \/ PositionFail
  \/ CloseReturns

InitGate ==
  /\ Init
  /\ runBudget = MaxRuns
  /\ riskConfig.enabled /\ riskConfig.autoCloseOnBreach
  /\ execConfig.enabled /\ execConfig.retryAttempts = 3
SpecGate == InitGate /\ [][GateNext]_vars

\* The risk manager configured with enabled = false: start() returns at
\* once, so no timer is set and stop() has nothing to stop; recordTrade and
\* forceCheck are there to be called.
DisabledNext ==
  \/ Midnight
  \/ StartSkipped
  \/ ForceCheck
  \/ RecordTrade
  \/ BalanceOk
  \/ BalanceFail
  \/ CancelReturns
  \/ PositionOk
  \/ PositionFail
  \/ CloseReturns
  \/ Publish

InitDisabled ==
  /\ Init
  /\ ~riskConfig.enabled
  /\ runBudget = MaxRuns
  /\ execConfig.enabled /\ execConfig.retryAttempts = 3
SpecDisabled == InitDisabled /\ [][DisabledNext]_vars

\* ----------------------------------------------------------------- claims
CheckDone == last.op = "checkDone"
CheckFailed == last.op = "checkFailed"
Called == last.op = "processSignal"
Blocked == last.op = "signalBlocked"
SignalDone == last.op = "signalDone"
Range(s) == {s[i] : i \in DOMAIN s}
Occurrences(e, s) == Cardinality({i \in DOMAIN s : s[i] = e})
OrderEvents == Occurrences("orderExecuted", emitted)
               + Occurrences("orderFailed", emitted)

\* C1: a signal that arrives while isTradingAllowed() is false never reaches
\* processSignal: every processSignal call, every invocation in flight and
\* every finished invocation was started with the gate open, and the handler
\* of a blocked signal makes no client call and emits nothing.
C1_BlockedSignalNotProcessed ==
  /\ \A inv \in BagToSet(invocations) : inv.gate
  /\ (Called \/ SignalDone) => last.gate
  /\ Blocked => (last.calls = {} /\ emitted = <<>>)

\* A signal arrived at a ready engine while the gate was closed.
C1_SignalWhileBlocked == Blocked /\ ~last.gate /\ isReady

\* C2: a risk check whose balance query succeeded and that computed the
\* daily-loss or the drawdown condition breached leaves isTradingAllowed()
\* false at the moment it finishes.
C2_BreachBlocksGate ==
  (CheckDone /\ (last.daily \/ last.dd)) => ~tradingAllowed

\* C3: whenever a snapshot has been published and no check is in progress,
\* the gate equals the isTradingAllowed flag of the published snapshot.
C3_GateMatchesSnapshot ==
  (currentStatus # NoStatus /\ checks = EmptyBag)
     => tradingAllowed = currentStatus.isTradingAllowed

\* C4: an entry order is submitted only after the four fetches returned and
\* validate reported no error; an invocation whose fetches failed or whose
\* validation reported an error ends with no order submitted and orderFailed
\* emitted.
C4_EntryNeedsFetchAndValidation ==
  /\ \A inv \in BagToSet(invocations) :
       inv.orders # {} => (inv.fetched /\ inv.errors = <<>>)
  /\ SignalDone =>
       /\ last.orders # {} => (last.fetched /\ last.errors = <<>>)
       /\ (~last.fetched \/ last.errors # <<>>)
            => (last.orders = {} /\ "orderFailed" \in Range(emitted))

\* An invocation ended on a validation error.
C4_ValidationFailed ==
  SignalDone /\ last.fetched /\ last.errors # <<>> /\ last.orders = {}

\* C5: a processSignal call on an engine that is not ready or not enabled
\* makes no client call, emits nothing, starts nothing and leaves the
\* validator's memory as it was.
C5_NotReadyIsNoOp ==
  [][(Called' /\ ~(isReady /\ execConfig.enabled))
       => /\ last'.calls = {}
          /\ emitted' = <<>>
          /\ invocations' = invocations
          /\ lastExecutedTimestamp' = lastExecutedTimestamp
          /\ lastExecutedType' = lastExecutedType]_vars

\* processSignal was called on an enabled engine that was not ready.
C5_CalledWhenNotReady == Called /\ ~last.ready /\ last.enabled

\* C6: a processSignal invocation that ends emits exactly one of
\* orderExecuted and orderFailed, orderExecuted only if its entry order
\* reported success; no other step emits either event.
C6_ExactlyOneOutcome ==
  /\ SignalDone => /\ OrderEvents = 1
                   /\ "orderExecuted" \in Range(emitted)
                        => (last.entryOk /\ "entry" \in last.orders)
  /\ ~SignalDone => OrderEvents = 0

\* An invocation ended in the catch block.
C6_FailedInCatch == SignalDone /\ emitted = <<"orderFailed", "error">>

\* C7: validate reports the duplicate error for a signal exactly when the
\* signal is the one of the latest recordExecution since construction or
\* the last reset().
C7_DuplicateIffRecorded ==
  \A signal \in Signals, position \in Positions,
     available \in AvailableBalances, markPrice \in MarkPrices :
    LET positionSize == calculatePositionSize(available, markPrice,
                                              SymbolRules, execConfig)
        validation == validate(signal, position, positionSize, SymbolRules,
                               lastExecutedTimestamp, lastExecutedType)
    IN ("Duplicate signal" \in Range(validation.errors))
         <=> (recorded # NoSignal /\ signal = recorded)

\* The signal recorded last was handed in again and rejected as a duplicate.
C7_ReplayRejected ==
  SignalDone /\ recorded = last.signal
             /\ "Duplicate signal" \in Range(last.errors)

\* C8: for one (timestamp, type), with no reset() and no other signal
\* recorded in between, at most one entry order is filled, whatever the
\* number of processSignal invocations and their overlap.
C8_OneEntryPerKey == \A signal \in Signals : filled[signal] <= 1

C11_LiquidationFailureSurfaced ==
  last.op = "liquidationFailed"
     => ("error" \in Range(emitted) /\ ~tradingAllowed)

\* The step is the first check or recordTrade after UTC midnight: it runs
\* the reset of checkDayRollover (start() makes its own dailyStats).
RollsOver == ~starting /\ dailyStats'.dayStart > dailyStats.dayStart

\* C12: the first check or recordTrade after UTC midnight resets dailyStats
\* (dayStart the new day, no trade counted but the one recordTrade adds); it
\* clears a block while drawdown is not breached, with one tradingResumed,
\* and leaves a block in place while drawdown is breached.
C12_RolloverClearsDailyBlockOnly ==
  [][RollsOver =>
       /\ dailyStats'.dayStart = today
       /\ dailyStats'.tradeCount <= 1
       /\ (dailyStats'.tradeCount = 0 => dailyStats'.realizedPnl = 0)
       /\ (~tradingAllowed /\ ~latestDd
             => tradingAllowed' /\ Occurrences("tradingResumed", emitted') = 1)
       /\ (~tradingAllowed /\ latestDd => ~tradingAllowed')]_vars

\* C13: while trading is blocked and the drawdown computed from the latest
\* balance is above the limit, isTradingAllowed() turns true only in a step
\* of a check that computes a drawdown within the limit.
C13_DrawdownBlockNeedsRecovery ==
  [][(~tradingAllowed /\ latestDd /\ tradingAllowed') => ~latestDd']_vars

\* C14: no step of start, stop, a check, recordTrade or forceCheck lowers
\* peakBalance (resetPeakBalance, the one operation allowed to, is not among
\* the steps of the model).
C14_PeakNeverDecreases == [][peakBalance' >= peakBalance]_vars

\* C10: a check that finds a condition breached that the snapshot published
\* before did not show breached emits riskBreach of that kind and, with
\* autoCloseOnBreach, runs the emergency liquidation for it.
C10_NewBreachHandled ==
  CheckDone =>
    /\ last.newDaily => /\ "daily_loss" \in last.fired
                        /\ riskConfig.autoCloseOnBreach
                             => "daily_loss" \in last.closed
    /\ last.newDd => /\ "max_drawdown" \in last.fired
                     /\ riskConfig.autoCloseOnBreach
                          => "max_drawdown" \in last.closed

\* C15: a step in which isTradingAllowed() turns false emits exactly one
\* tradingBlocked and no tradingResumed, a step in which it turns true emits
\* exactly one tradingResumed and no tradingBlocked, and a step that leaves
\* it alone emits neither; the gate starts true, so the two events alternate
\* and tradingBlocked comes first.
C15_GateChangesAnnounced ==
  [][LET blocked == Occurrences("tradingBlocked", emitted')
         resumed == Occurrences("tradingResumed", emitted')
     IN /\ (tradingAllowed /\ ~tradingAllowed')
             => (blocked = 1 /\ resumed = 0)
        /\ (~tradingAllowed /\ tradingAllowed')
             => (blocked = 0 /\ resumed = 1)
        /\ (tradingAllowed' = tradingAllowed)
             => (blocked = 0 /\ resumed = 0)]_vars

\* A check called while trading was blocked resumed it at the day rollover.
C15_ResumedAtRollover ==
  /\ tradingAllowed
  /\ emitted = <<"tradingResumed">>
  /\ \E chk \in InFlight("balance") : ~chk.gate0

\* C16: a signal whose entry submission met a transient exchange error is
\* reported failed only after submitMarketOrder was invoked retryAttempts
\* times.
C16_TransientEntryRetried ==
  (SignalDone /\ last.entry = "transient" /\ ~last.entryOk)
     => last.submits = execConfig.retryAttempts

\* C17: an entry order the exchange rejected is submitted exactly once, fails
\* the signal with one orderFailed carrying the exchange's error text, and
\* is followed by no take-profit or stop-loss order.
C17_RejectedEntryNotRetried ==
  (SignalDone /\ last.entry = "rejected")
     => /\ last.submits = 1
        /\ last.submitted = <<entryRequest(last.signal)>>
        /\ emitted = <<"orderFailed">>
        /\ last.reason = "Margin is insufficient"

\* The exchange rejected the entry order of a signal.
C17_EntryRejected ==
  SignalDone /\ last.entry = "rejected" /\ last.fetched /\ last.errors = <<>>

\* The orders of an executed signal: MARKET, then TAKE_PROFIT_MARKET and
\* STOP_MARKET on the opposite side, priced from the fill.
ExecutedOrders(signal, submitted, avgPrice) ==
  LET long == signal.type = "LONG"
      tp == adjustPricePrecision(
              calculateTakeProfit(avgPrice, signal.type, execConfig),
              SymbolRules)
      sl == adjustPricePrecision(
              calculateStopLoss(avgPrice, signal.type, execConfig),
              SymbolRules)
  IN /\ Len(submitted) = 3
     /\ submitted[1] = [type |-> "MARKET", stopPrice |-> 0,
                         side |-> IF long THEN "BUY" ELSE "SELL"]
     /\ submitted[2] = [type |-> "TAKE_PROFIT_MARKET", stopPrice |-> tp,
                         side |-> IF long THEN "SELL" ELSE "BUY"]
     /\ submitted[3] = [type |-> "STOP_MARKET", stopPrice |-> sl,
                         side |-> IF long THEN "SELL" ELSE "BUY"]
     /\ (long => (submitted[2].stopPrice > avgPrice
                   /\ avgPrice > submitted[3].stopPrice))
     /\ (~long => (submitted[2].stopPrice < avgPrice
                    /\ avgPrice < submitted[3].stopPrice))

C19_ExitResultsCarried ==
  (SignalDone /\ last.entryOk)
     => /\ Len(last.submitted) = 3
        /\ emitted = <<"orderExecuted">>
        /\ last.result # NoResult
        /\ last.result.signal = last.signal
        /\ last.result.entryOrder
        /\ last.result.takeProfitOrder = last.replies.tp
        /\ last.result.stopLossOrder = last.replies.sl

\* The take-profit order was accepted and the stop-loss order failed.
C19_StopLossFailedAlone ==
  SignalDone /\ last.entryOk /\ last.replies.tp /\ ~last.replies.sl

\* C20: lastExecutedTimestamp and lastExecutedType change only in a step
\* that ends a processSignal run whose entry order succeeded (to the run's
\* signal: recordExecution) and in a reset() step (to their initial values);
\* a run that ends in failure leaves them as they are, so its signal is
\* flagged as duplicate afterwards only if it was before.
C20_MemoryChangesOnlyByRecordOrReset ==
  [][/\ (lastExecutedTimestamp' # lastExecutedTimestamp
          \/ lastExecutedType' # lastExecutedType)
         => \/ /\ last'.op = "signalDone" /\ last'.entryOk
               /\ lastExecutedTimestamp' = last'.signal.timestamp
               /\ lastExecutedType' = last'.signal.type
            \/ /\ last'.op = "reset"
               /\ lastExecutedTimestamp' = 0
               /\ lastExecutedType' = "null"
     /\ (last'.op = "signalDone" /\ ~last'.entryOk)
         => /\ lastExecutedTimestamp' = lastExecutedTimestamp
            /\ lastExecutedType' = lastExecutedType
            /\ isDuplicateSignal(last'.signal, lastExecutedTimestamp',
                                 lastExecutedType')
                 = isDuplicateSignal(last'.signal, lastExecutedTimestamp,
                                     lastExecutedType)]_vars

\* A signal failed at its entry order and is not a duplicate afterwards,
\* while another signal is in the validator's memory.
C20_FailedSignalNotRemembered ==
  /\ SignalDone /\ last.entry \in {"rejected", "transient"}
  /\ recorded # NoSignal /\ recorded # last.signal
  /\ ~isDuplicateSignal(last.signal, lastExecutedTimestamp, lastExecutedType)

\* C21: once an initialize() call has failed with the engine not ready, the
\* engine never becomes ready, and every processSignal after a failed
\* initialize() makes no call.
C21_FailedInitializeLatches ==
  [][/\ (initFailed /\ ~isReady) => ~isReady'
     /\ (initFailed' /\ last'.op = "processSignal") => last'.calls = {}]_vars

\* C22: the engine becomes ready only in an initialize() call whose
\* verifyConnection answered true and whose setLeverage reported success.
C22_ReadyNeedsConnectionAndLeverage ==
  [][(~isReady /\ isReady')
       => (last'.op = "initializeDone" /\ last'.connected
           /\ last'.leverageSet)]_vars

\* C23: an initialize() call on a ready engine leaves it ready, and the value
\* it returns is getStatus().ready as it is when the call returns.
C23_InitializeIdempotent ==
  [][/\ isReady => isReady'
     /\ (isReady /\ last'.op = "initializeDone")
          => last'.returned = isReady']_vars

C25_QuantityNeverRoundedUp ==
  (applied.fn = "calculatePositionSize" /\ applied.result.valid)
     => applied.result.quantity * applied.currentPrice
          <= 10 * Min(applied.available * applied.cfg.positionSizePercent
                        * applied.cfg.leverage,
                      applied.cfg.maxPositionSizeUsdt * 100)

\* The errors and warnings the rules of validate give for its arguments,
\* each rule on its own.
ExpectedErrors(a) ==
  (IF a.signal.timestamp = a.lastTimestamp /\ a.signal.type = a.lastType
   THEN <<"Duplicate signal">> ELSE <<>>)
  \o (IF ~a.positionSize.valid THEN <<"Invalid position size">> ELSE <<>>)
  \o (IF a.positionSize.valid
         /\ a.positionSize.notionalValue < SymbolRules.minNotional * 1000
      THEN <<"Notional below minimum">> ELSE <<>>)
  \o (IF a.positionSize.valid /\ a.positionSize.quantity < SymbolRules.minQty
      THEN <<"Quantity below minimum">> ELSE <<>>)
Opposite(a) ==
  \/ a.signal.type = "LONG" /\ a.position.side = "SHORT"
  \/ a.signal.type = "SHORT" /\ a.position.side = "LONG"

\* C26: validate reports one error per rule that fires, all of them; the
\* result is valid exactly when no error fired; a position opposite to the
\* signal adds one warning and no error, any other position adds nothing.
C26_AllRulesEvaluated ==
  applied.fn = "validate"
     => /\ applied.result.errors = ExpectedErrors(applied)
        /\ applied.result.valid = (applied.result.errors = <<>>)
        /\ Len(applied.result.warnings) = IF Opposite(applied) THEN 1 ELSE 0

\* A duplicate signal with an invalid size against an opposite position.
C26_TwoErrorsAndWarning ==
  /\ applied.fn = "validate"
  /\ applied.result.errors = <<"Duplicate signal", "Invalid position size">>
  /\ Len(applied.result.warnings) = 1
  /\ ~applied.result.valid

C28_TradeCountedAndChecked ==
  [][/\ last'.op = "recordTrade"
         => /\ dailyStats'.dayStart = today
            /\ dailyStats'.realizedPnl
                  = (IF today > dailyStats.dayStart THEN 0
                     ELSE dailyStats.realizedPnl) + last'.realizedPnl
            /\ dailyStats'.tradeCount
                  = (IF today > dailyStats.dayStart THEN 0
                     ELSE dailyStats.tradeCount) + 1
            /\ runs' = runs + 1
            /\ BagCardinality(checks') = BagCardinality(checks) + 1
            /\ \E chk \in InFlight("balance")' :
                  CopiesIn(chk, checks') = CopiesIn(chk, checks) + 1
     /\ last'.op = "balanceOk"
         => /\ last'.status.dailyPnl
                  = last'.status.currentBalance - dailyStats.startBalance
                    + dailyStats.realizedPnl
            /\ (last'.status.dailyPnl < -riskConfig.dailyLossLimitUsdt
                  => ~tradingAllowed')]_vars

\* The check started by a recorded loss found the balance where the day
\* began and blocked trading on the daily-loss limit.
C28_LossBlockedAtOnce ==
  /\ last.op = "balanceOk"
  /\ last.status.currentBalance = dailyStats.startBalance
  /\ dailyStats.realizedPnl = -150 /\ dailyStats.tradeCount = 1
  /\ emitted = <<"riskBreach:daily_loss", "tradingBlocked">>
  /\ ~tradingAllowed

\* C29: getStatus() changes and statusChanged is emitted only for the first
\* snapshot or one that hasStatusChanged tells apart from the published
\* one; any other check leaves the published snapshot as it is and emits
\* nothing.
C29_PublishedOnlyOnChange ==
  [][/\ currentStatus' # currentStatus
         => "statusChanged" \in Range(emitted')
     /\ "statusChanged" \in Range(emitted')
         => /\ last'.op = "checkDone"
            /\ hasStatusChanged(currentStatus, currentStatus')]_vars

\* C30: while the manager runs, the dailyPnl computed in a day that began
\* after construction (by a rollover, or by start()), with no trade
\* recorded, is the change of the balance from a balance the account had:
\* the baseline a rollover installs is an account balance, also when no
\* check has succeeded before it.
C30_FirstDailyPnlIsBalanceChange ==
  (last.op = "balanceOk" /\ isRunning /\ dailyStats.dayStart > 0
   /\ dailyStats.tradeCount = 0)
     => \E b \in Balances :
          last.status.dailyPnl = last.status.currentBalance - b

\* C31: the risk gate is sampled by the signalDetected handler alone: an
\* invocation that was started with the gate open and got its fetches and a
\* valid validation submits its entry order, and one whose entry succeeded
\* submits both exit orders, whatever a risk check has done to the gate (and
\* to the position) in between; closedAt holds the orders submitted while
\* the gate was closed.
C31_InFlightNotAborted ==
  /\ \A inv \in BagToSet(invocations) :
        /\ inv.gate /\ inv.closedAt \subseteq inv.orders
        /\ inv.pc = "entry" => (inv.orders = {"entry"} /\ ~inv.entryOk)
        /\ inv.pc = "exits" => (inv.orders = {"entry", "tp", "sl"}
                                /\ inv.entryOk)
  /\ (SignalDone /\ last.fetched /\ last.errors = <<>>)
        => "entry" \in last.orders
  /\ (SignalDone /\ last.entryOk) => last.orders = {"entry", "tp", "sl"}

\* A check blocked trading and ran the emergency liquidation while an
\* invocation awaited its fetches; the invocation then submitted its entry
\* order and its two exit orders with the gate closed.
C31_OrdersWhileGateClosed ==
  /\ ~tradingAllowed
  /\ \E inv \in ExecInFlight("exits") :
        inv.gate /\ inv.closedAt = {"entry", "tp", "sl"}
  /\ \E chk \in InFlight("publish") : chk.closed # {}

\* The first attempt within `attempts` at which the operation does not
\* throw (0 if there is none).
FirstReturn(operation, attempts) ==
  LET ok == {i \in 1 .. attempts : ~operation[i].threw}
  IN IF ok = {} THEN 0 ELSE CHOOSE i \in ok : \A j \in ok : i <= j

ClosingCalls(position) ==
  <<ClientCall("cancelAllOrders"), ClientCall("getPosition")>>
  \o (IF position.side # "NONE" /\ position.size > 0
      THEN <<[fn |-> "submitMarketOrder",
              side |-> IF position.side = "LONG" THEN "SELL" ELSE "BUY",
              quantity |-> position.size]>>
      ELSE <<>>)

\* C33: closeAllPositions calls cancelAllOrders, then getPosition, and then,
\* exactly when the position has a side and a size above 0, submits one
\* market order on the opposite side for the whole size; it submits nothing
\* before getPosition has answered and nothing for no position.
C33_LiquidationInOrder ==
  /\ \A chk \in BagToSet(checks) :
        /\ chk.pc = "cancel" => chk.calls = <<ClientCall("cancelAllOrders")>>
        /\ chk.pc = "position"
             => chk.calls = <<ClientCall("cancelAllOrders"),
                              ClientCall("getPosition")>>
        /\ chk.pc = "close" => chk.calls = ClosingCalls(chk.position)
                                /\ Len(chk.calls) = 3
        /\ chk.pc \in {"balance", "publish"} => chk.calls = <<>>
  /\ "calls" \in DOMAIN last
        => last.calls = ClosingCalls(last.position)

\* The liquidation found a SHORT position of size 2 and has submitted its
\* one closing order: BUY 2.
C33_ShortClosedInFull ==
  \E chk \in InFlight("close") :
     /\ chk.position = [side |-> "SHORT", size |-> 2]
     /\ chk.calls[3] = [fn |-> "submitMarketOrder", side |-> "BUY",
                         quantity |-> 2]

\* A snapshot whose fields fit one another.
Consistent(s) ==
  /\ s.isTradingAllowed = (~s.isDailyLimitBreached /\ ~s.isDrawdownBreached)
  /\ s.peakBalance >= s.currentBalance
  /\ s.currentDrawdown.den > 0 /\ s.currentDrawdown.num >= 0
  /\ IF s.peakBalance > 0
     THEN s.currentDrawdown.num * s.peakBalance
            = (s.peakBalance - s.currentBalance) * s.currentDrawdown.den
     ELSE s.currentDrawdown.num = 0
  /\ s.dailyLossRemaining
       = (IF riskConfig.dailyLossLimitUsdt + s.dailyPnl > 0
          THEN riskConfig.dailyLossLimitUsdt + s.dailyPnl ELSE 0)
  /\ s.isDailyLimitBreached = (s.dailyPnl < -riskConfig.dailyLossLimitUsdt)
  /\ s.isDrawdownBreached
       = (s.currentDrawdown.num * 100
            > riskConfig.maxDrawdownPercent * s.currentDrawdown.den)
  /\ s.currentBalance \in Balances

\* C34: the snapshot getStatus() returns, and the one every check in flight
\* carries, is consistent: the gate flag is the conjunction of the two
\* negated breach flags, peakBalance >= currentBalance, currentDrawdown is
\* (peakBalance - currentBalance) / peakBalance (0 for no peak),
\* dailyLossRemaining is max(0, limit + dailyPnl), and a snapshot is
\* computed in the step of one balance reply from that reply's balance.
C34_SnapshotConsistent ==
  /\ currentStatus # NoStatus => Consistent(currentStatus)
  /\ \A chk \in BagToSet(checks) :
        chk.status # NoStatus => Consistent(chk.status)
  /\ last.op = "balanceOk"
        => /\ Consistent(last.status)
           /\ last.status.peakBalance = peakBalance
           /\ last.status.dailyPnl
                = last.status.currentBalance - dailyStats.startBalance
                  + dailyStats.realizedPnl

\* A published snapshot below the peak with both limits breached: the loss
\* of 120 leaves nothing of the daily limit of 100.
C34_BreachedSnapshotPublished ==
  /\ currentStatus # NoStatus
  /\ currentStatus.peakBalance = 1000 /\ currentStatus.currentBalance = 880
  /\ currentStatus.dailyPnl = -120 /\ currentStatus.dailyLossRemaining = 0
  /\ currentStatus.isDrawdownBreached /\ currentStatus.isDailyLimitBreached
  /\ ~currentStatus.isTradingAllowed

\* The riskBreach events among e, and the closeAllPositions calls in b that
\* have just been made (they await cancelAllOrders).
RiskBreaches(e) ==
  Occurrences("riskBreach:daily_loss", e)
  + Occurrences("riskBreach:max_drawdown", e)
Closing(b) ==
  LET S == {chk \in BagToSet(b) : chk.pc = "cancel"}
  IN BagCardinality([chk \in S |-> CopiesIn(chk, b)])

\* C35: riskBreach is emitted, and closeAllPositions is called, only in a
\* step that turns isTradingAllowed() from true to false, once in such a
\* step, the liquidation only together with the event: so at most once
\* between a change of the gate to false and its next change to true,
\* however many checks run or overlap meanwhile.
C35_OncePerEpisode ==
  [][LET fired == RiskBreaches(emitted')
         begun == Closing(checks') - Closing(checks)
     IN /\ fired <= 1 /\ begun <= 1
        /\ begun = 1 => fired = 1
        /\ fired = 1 => (tradingAllowed /\ ~tradingAllowed')]_vars

\* While the liquidation of one check is under way, an overlapping check
\* that was called with trading blocked and computed a breach has finished
\* without an event and without a liquidation.
C35_SecondCheckQuiet ==
  /\ CheckDone /\ (last.daily \/ last.dd) /\ ~last.gate0
  /\ last.fired = {} /\ last.closed = {}
  /\ ~tradingAllowed
  /\ \E chk \in BagToSet(checks) : chk.pc \in {"cancel", "position", "close"}

\* C36: no checkRiskLimits invocation begins while another is awaiting its
\* balance query or its emergency liquidation: at most one is in flight.
C36_ChecksDoNotOverlap == BagCardinality(checks) <= 1

\* C37: a processSignal run whose entry order succeeded has stored its
\* signal in the validator when it ends, and from the moment an entry
\* order for a signal has succeeded no entry order is submitted for a
\* replay of that signal.
C37_EntryRecordedBeforeReplay ==
  [][/\ (last'.op = "signalDone" /\ last'.entryOk)
          => /\ lastExecutedTimestamp' = last'.signal.timestamp
             /\ lastExecutedType' = last'.signal.type
     /\ \A inv \in ExecInFlight("entry")' :
          CopiesIn(inv, invocations') > CopiesIn(inv, invocations)
            => ~\E other \in BagToSet(invocations) :
                  other.signal = inv.signal /\ other.entryOk]_vars

\* C38: a processSignal run that got its fetches and a valid validation has
\* submitted its entry order at least once when it ends, whatever
\* retryAttempts is, and a failure it reports is the answer to a submission.
C38_EntryAttemptedAtLeastOnce ==
  (SignalDone /\ last.fetched /\ last.errors = <<>>)
     => /\ last.submits >= 1 /\ "entry" \in last.orders
        /\ "orderFailed" \in Range(emitted)
              => last.entry \in {"rejected", "transient"}

\* C39: with config.enabled = false, isTradingAllowed() is true in every
\* state, no check is started by a timer, and no step emits riskBreach or
\* tradingBlocked or calls closeAllPositions.
C39_DisabledNeverBlocks ==
  ~riskConfig.enabled
     => /\ tradingAllowed /\ ~isRunning /\ ~checkTimer
        /\ RiskBreaches(emitted) = 0
        /\ "tradingBlocked" \notin Range(emitted)
        /\ \A chk \in BagToSet(checks) : chk.pc \in {"balance", "publish"}

\* C40: for a valid result of calculatePositionSize, validate with the same
\* rules adds neither the notional nor the quantity error: its only possible
\* error is the duplicate one, and for a signal that is no duplicate the
\* validation is valid.
C40_RecheckRedundant ==
  (applied.fn = "sizeThenValidate" /\ applied.positionSize.valid)
     => /\ "Notional below minimum" \notin Range(applied.result.errors)
        /\ "Quantity below minimum" \notin Range(applied.result.errors)
        /\ applied.result.errors
             = (IF applied.duplicate THEN <<"Duplicate signal">> ELSE <<>>)
        /\ applied.result.valid = ~applied.duplicate

\* A small valid size (0.002 at 50000 USDT, a notional of 100 USDT) passes
\* the validator's re-check for a signal that is no duplicate.
C40_SmallSizeStillValid ==
  /\ applied.fn = "sizeThenValidate" /\ ~applied.duplicate
  /\ applied.positionSize.valid /\ applied.result.valid
  /\ applied.positionSize.quantity = 2
  /\ applied.positionSize.notionalValue = 100000

====
